---- MODULE Spec2Model ----
(***************************************************************************)
(* Model of src/src/Drawing.tsx: a raster drawing canvas with a snapshot   *)
(* history (undo / redo / clear).  One action per event handler; every     *)
(* handler runs to completion on the single UI thread and sees the state   *)
(* of the latest render.  The only asynchronous step is the decode of a    *)
(* snapshot image started by loadHistoryState (img.onload).                *)
(*                                                                         *)
(* The canvas is abstracted to a small raster: a pixel is <<p, r>>, the    *)
(* sample at distance r from the centre line of a stroke through point p.  *)
(* A line of width w covers <<p, r>> iff 2*r <= w.                         *)
(***************************************************************************)
EXTENDS Integers, Sequences, FiniteSets, TLC

\* ---- bounds of the model ----
MaxHistory == 3      \* longest history explored
MaxPending == 2      \* most snapshot decodes in flight at once
MaxSteps   == 8      \* handler invocations in one session

\* ---- input domains ----
Points  == {1, 2}                   \* pointer positions, in canvas space
Offsets == {0, 3}                   \* distance of a sample from the line centre
Pixels  == Points \X Offsets
Colors  == {"#000000", "#FF0000"}   \* two entries of the palette
Widths  == {4, 8}                   \* two positions of the slider (min 1, max 20)
Blank   == "blank"                  \* transparent pixel

VARIABLES strokeWidth, color, isDrawing, history, historyIndex,
          surface, path, pending, mounted, link,
          last, target, strokes, mon, cleared, steps

progVars == <<strokeWidth, color, isDrawing, history, historyIndex, surface, path, pending,
              mounted, link>>
auxVars  == <<last, target, strokes, mon, cleared, steps>>
vars     == <<strokeWidth, color, isDrawing, history, historyIndex, surface, path, pending,
              mounted, link, last, target, strokes, mon, cleared, steps>>

BlankSurface == [px \in Pixels |-> Blank]

\* ---- canvas.toDataURL() and the decode done by new Image() ----
NumPixels == Cardinality(Pixels)
PixelIndex(px) == (px[1] - 1) * Cardinality(Offsets) + (IF px[2] = 0 THEN 1 ELSE 2)
PixelAt(i) == CHOOSE px \in Pixels : PixelIndex(px) = i

\* the data URL is the row-major list of pixel values
ToDataURL(s) == [i \in 1..NumPixels |-> s[PixelAt(i)]]
\* decoding gives the image whose pixel px is entry PixelIndex(px)
DecodeImage(url) == [px \in Pixels |-> url[PixelIndex(px)]]
\* clearRect followed by drawImage(img, 0, 0): the canvas becomes the image
\* (variant: clearRect without drawImage)
DrawImageBlank(img) == [px \in Pixels |-> Blank]
DrawImage(img) == [px \in Pixels |-> img[px]]

NoURL == <<>>

\* ---- the 2d context ----
EmptyPath == [pts |-> {}, cur |-> 0, segs |-> FALSE]
\* beginPath(); moveTo(pos)
BeginPathAt(pos) == [pts |-> {pos}, cur |-> pos, segs |-> FALSE]
\* lineTo(pos)
LineTo(p, pos) == [pts |-> p.pts \cup {pos}, cur |-> pos, segs |-> TRUE]
Covered(w, r) == 2 * r <= w
\* stroke(): paints every segment of the current path with the current
\* lineWidth and strokeStyle
StrokedPoints(p) == IF p.segs THEN p.pts ELSE {}
StrokePath(s, p, w, c) ==
    [px \in Pixels |-> IF px[1] \in StrokedPoints(p) /\ Covered(w, px[2]) THEN c ELSE s[px]]

\* ---- history ----
\* (variants: append without slicing; guards off by one; snapshot without the live tool state)
NoTruncate(h, i, snap) == Append(h, snap)
CommitSliceFromCursor(h, i, snap) == Append(SubSeq(h, IF i < 0 THEN 1 ELSE i + 1, Len(h)), snap)
Commit(h, i, snap) == Append(SubSeq(h, 1, i + 1), snap)
UndoOffByOne(i) == i >= 0
UndoIfNotFirst(i) == i # 0
CanUndo(i) == i > 0
RedoOffByOne(i, h) == i < Len(h)
CanRedo(i, h) == i < Len(h) - 1
SnapshotStaleTool(s, w, c) == [dataURL |-> ToDataURL(s), strokeWidth |-> 8, color |-> "#000000"]
Snapshot(s, w, c) == [dataURL |-> ToDataURL(s), strokeWidth |-> w, color |-> c]

Init ==
    /\ strokeWidth = 8
    /\ color = "#000000"
    /\ isDrawing = FALSE
    /\ history = <<>>
    /\ historyIndex = -1
    /\ surface = BlankSurface
    /\ path = EmptyPath
    /\ pending = <<>>
    /\ mounted = TRUE
    /\ link = NoURL
    /\ last = [op |-> "init", len |-> 0, index |-> -1, drawing |-> FALSE]
    /\ target = NoURL
    /\ strokes = 0
    /\ cleared = FALSE
    /\ mon = [phase |-> 0, surface |-> BlankSurface, strokeWidth |-> 8, color |-> "#000000", index |-> -1]
    /\ steps = 0

\* ---- bookkeeping for the properties (not program state) ----
\* last    : the handler that ran last and the cursor it started from
\* target  : data URL of the latest restore request, NoURL once a stroke or
\*           clear has written the surface since
\* strokes : strokes completed so far, -1 once undo, redo or clear was used
\* mon     : progress through "undo, decodes complete, redo, decodes complete"
\* cleared : clearCanvas has wiped the surface and no stroke has drawn since
\* steps   : handlers run so far
MonIdle == [phase |-> 0, surface |-> BlankSurface, strokeWidth |-> 8, color |-> "#000000", index |-> -1]
Log(op) ==
    /\ steps < MaxSteps
    /\ steps' = steps + 1
    /\ last' = [op |-> op, len |-> Len(history), index |-> historyIndex, drawing |-> isDrawing]

\* ---- tool controls ----
SetColor(c) ==
    /\ color' = c
    /\ UNCHANGED <<strokeWidth, isDrawing, history, historyIndex, surface, path, pending, mounted, link>>
    /\ Log("setColor") /\ mon' = MonIdle /\ UNCHANGED <<target, strokes, cleared>>

SetStrokeWidth(w) ==
    /\ strokeWidth' = w
    /\ UNCHANGED <<color, isDrawing, history, historyIndex, surface, path, pending, mounted, link>>
    /\ Log("setStrokeWidth") /\ mon' = MonIdle /\ UNCHANGED <<target, strokes, cleared>>

\* ---- canvas handlers ----
\* const canvas = canvasRef.current; if (canvas) ...
HasCanvasAlways(m) == TRUE
HasCanvas(m) == m
\* if (!isDrawing) return;
ShouldDrawAlways(drawing) == TRUE
ShouldDraw(drawing) == drawing

StartDrawing(pos) ==
    /\ IF HasCanvas(mounted)
         THEN /\ path' = BeginPathAt(pos)
              /\ isDrawing' = TRUE
         ELSE UNCHANGED <<path, isDrawing>>
    /\ UNCHANGED <<strokeWidth, color, history, historyIndex, surface, pending, mounted, link>>
    /\ Log("startDrawing") /\ mon' = MonIdle /\ UNCHANGED <<target, strokes, cleared>>

Draw(pos) ==
    /\ IF ~ShouldDraw(isDrawing) \/ ~HasCanvas(mounted)
         THEN UNCHANGED <<path, surface, target, cleared>>
         ELSE /\ path' = LineTo(path, pos)
              /\ surface' = StrokePath(surface, LineTo(path, pos), strokeWidth, color)
              /\ target' = NoURL
              /\ cleared' = FALSE
    /\ UNCHANGED <<strokeWidth, color, isDrawing, history, historyIndex, pending, mounted, link>>
    /\ Log("draw") /\ mon' = MonIdle /\ UNCHANGED strokes

EndDrawing ==
    /\ historyIndex + 2 <= MaxHistory
    /\ IF HasCanvas(mounted)
         THEN /\ isDrawing' = FALSE
              /\ history' = Commit(history, historyIndex, Snapshot(surface, strokeWidth, color))
              /\ historyIndex' = historyIndex + 1
              /\ strokes' = IF strokes >= 0 /\ isDrawing THEN strokes + 1 ELSE strokes
         ELSE UNCHANGED <<isDrawing, history, historyIndex, strokes>>
    /\ UNCHANGED <<strokeWidth, color, surface, path, pending, mounted, link>>
    /\ Log("endDrawing") /\ mon' = MonIdle /\ UNCHANGED <<target, cleared>>

\* ---- history controls ----
\* history[index] of the source is history[index + 1] here.  Reading
\* history[index].dataURL at an index outside the array throws before
\* anything is assigned.
LoadHistoryState(index) ==
    IF HasCanvas(mounted) /\ index + 1 \in 1..Len(history)
      THEN /\ pending' = Append(pending, history[index + 1].dataURL)
           /\ strokeWidth' = history[index + 1].strokeWidth
           /\ color' = history[index + 1].color
           /\ target' = history[index + 1].dataURL
      ELSE UNCHANGED <<pending, strokeWidth, color, target>>

Undo ==
    /\ IF CanUndo(historyIndex)
         THEN /\ Len(pending) < MaxPending
              /\ historyIndex' = historyIndex - 1
              /\ LoadHistoryState(historyIndex - 1)
              /\ mon' = [phase |-> 1, surface |-> surface, strokeWidth |-> strokeWidth,
                         color |-> color, index |-> historyIndex]
         ELSE /\ UNCHANGED <<historyIndex, pending, strokeWidth, color, target>>
              /\ mon' = MonIdle
    /\ UNCHANGED <<isDrawing, history, surface, path, mounted, link>>
    /\ Log("undo") /\ strokes' = -1 /\ UNCHANGED cleared

Redo ==
    /\ IF CanRedo(historyIndex, history)
         THEN /\ Len(pending) < MaxPending
              /\ historyIndex' = historyIndex + 1
              /\ LoadHistoryState(historyIndex + 1)
              /\ mon' = IF mon.phase = 2 THEN [mon EXCEPT !.phase = 3] ELSE MonIdle
         ELSE /\ UNCHANGED <<historyIndex, pending, strokeWidth, color, target>>
              /\ mon' = MonIdle
    /\ UNCHANGED <<isDrawing, history, surface, path, mounted, link>>
    /\ Log("redo") /\ strokes' = -1 /\ UNCHANGED cleared

\* img.onload of the i-th decode in flight; completions come in any order
RemoveAt(q, i) == [j \in 1..(Len(q) - 1) |-> IF j < i THEN q[j] ELSE q[j + 1]]
ImageLoaded(i) ==
    /\ i \in 1..Len(pending)
    /\ surface' = DrawImage(DecodeImage(pending[i]))
    /\ pending' = RemoveAt(pending, i)
    /\ UNCHANGED <<strokeWidth, color, isDrawing, history, historyIndex, path, mounted, link>>
    /\ Log("onload") /\ UNCHANGED <<target, strokes, cleared>>
    /\ mon' = IF mon.phase \in {1, 3}
                THEN (IF Len(pending) = 1 THEN [mon EXCEPT !.phase = mon.phase + 1] ELSE mon)
                ELSE MonIdle

\* the decode of the i-th image in flight fails: img.onload never fires and
\* the image has no onerror handler, so nothing runs
DecodeFailedSurfaceCleared(s) == BlankSurface
DecodeFailedSurface(s) == s
DecodeFailed(i) ==
    /\ i \in 1..Len(pending)
    /\ surface' = DecodeFailedSurface(surface)
    /\ pending' = RemoveAt(pending, i)
    /\ UNCHANGED <<strokeWidth, color, isDrawing, history, historyIndex, path, mounted, link>>
    /\ Log("onerror") /\ mon' = MonIdle /\ target' = NoURL /\ UNCHANGED <<strokes, cleared>>

ClearCanvas ==
    /\ IF HasCanvas(mounted)
         THEN /\ surface' = BlankSurface
              /\ history' = <<>>
              /\ historyIndex' = -1
              /\ target' = NoURL
              /\ cleared' = TRUE
         ELSE UNCHANGED <<surface, history, historyIndex, target, cleared>>
    /\ UNCHANGED <<strokeWidth, color, isDrawing, path, pending, mounted, link>>
    /\ Log("clearCanvas") /\ mon' = MonIdle /\ strokes' = -1

\* ---- export ----
\* link.href = canvas.toDataURL("image/png"); link.click()
DownloadHrefFromHistory(s, h, i) ==
    IF i + 1 \in 1..Len(h) THEN h[i + 1].dataURL ELSE ToDataURL(BlankSurface)
DownloadHref(s, h, i) == ToDataURL(s)
DownloadPNG ==
    /\ IF HasCanvas(mounted)
         THEN link' = DownloadHref(surface, history, historyIndex)
         ELSE UNCHANGED link
    /\ UNCHANGED <<strokeWidth, color, isDrawing, history, historyIndex, surface, path, pending, mounted>>
    /\ Log("downloadPNG") /\ mon' = MonIdle /\ UNCHANGED <<target, strokes, cleared>>

\* ---- mounting: React sets canvasRef.current when the canvas is committed ----
Mount ==
    /\ ~mounted
    /\ mounted' = TRUE
    /\ UNCHANGED <<strokeWidth, color, isDrawing, history, historyIndex, surface, path, pending, link>>
    /\ Log("mount") /\ mon' = MonIdle /\ UNCHANGED <<target, strokes, cleared>>

Next ==
    \/ \E c \in Colors : SetColor(c)
    \/ \E w \in Widths : SetStrokeWidth(w)
    \/ \E pos \in Points : StartDrawing(pos)
    \/ \E pos \in Points : Draw(pos)
    \/ EndDrawing
    \/ Undo
    \/ Redo
    \/ \E i \in 1..MaxPending : ImageLoaded(i)
    \/ ClearCanvas
    \/ DownloadPNG

\* a session on the mounted canvas whose snapshot images always decode
Spec == Init /\ [][Next]_vars

\* the same session when the decode of a snapshot image can fail
NextDecodeFailure ==
    \/ Next
    \/ \E i \in 1..MaxPending : DecodeFailed(i)
SpecDecodeFailure == Init /\ [][NextDecodeFailure]_vars

\* the component from its construction, before the canvas is mounted
InitUnmounted ==
    /\ strokeWidth = 8
    /\ color = "#000000"
    /\ isDrawing = FALSE
    /\ history = <<>>
    /\ historyIndex = -1
    /\ surface = BlankSurface
    /\ path = EmptyPath
    /\ pending = <<>>
    /\ mounted = FALSE
    /\ link = NoURL
    /\ last = [op |-> "init", len |-> 0, index |-> -1, drawing |-> FALSE]
    /\ target = NoURL
    /\ strokes = 0
    /\ mon = MonIdle
    /\ cleared = FALSE
    /\ steps = 0
NextUnmounted ==
    \/ Mount
    \/ Next
SpecUnmounted == InitUnmounted /\ [][NextUnmounted]_vars

TypeOK ==
    /\ strokeWidth \in Widths
    /\ color \in Colors
    /\ isDrawing \in BOOLEAN
    /\ historyIndex \in -1..(MaxHistory - 1)
    /\ Len(history) <= MaxHistory
    /\ Len(pending) <= MaxPending

\* the handler named op has just run
Did(op) == last'.op = op /\ steps' = steps + 1

\* C1: in every reachable state the cursor satisfies
\* -1 <= historyIndex <= length(history) - 1.
HistoryIndexInRange == -1 <= historyIndex /\ historyIndex <= Len(history) - 1
\* an undo has moved the cursor below the end of a two-entry history
HistoryIndexInRangeWitness ==
    last.op = "undo" /\ last.index = 1 /\ historyIndex = 0 /\ Len(history) = 2

\* C2: a commit at cursor i of history h yields h[0..i] followed by the new
\* snapshot and index = i + 1 = length - 1, and a redo() issued immediately
\* afterwards changes nothing.
CommitTruncatesThenAppends ==
    [][ /\ Did("endDrawing") =>
             /\ Len(history') = historyIndex + 2
             /\ \A k \in 1..(historyIndex + 1) : history'[k] = history[k]
             /\ history'[historyIndex + 2].dataURL = ToDataURL(surface)
             /\ historyIndex' = historyIndex + 1
             /\ historyIndex' = Len(history') - 1
        /\ (last.op = "endDrawing" /\ Did("redo")) => UNCHANGED progVars
      ]_vars
\* a commit made after an undo has dropped the undone snapshot
CommitTruncatesWitness ==
    /\ last.op = "endDrawing"
    /\ last.index >= 0 /\ last.index < last.len - 1
    /\ Len(history) = last.index + 2 /\ historyIndex = last.index + 1

\* C3 (as claimed): undo() followed by redo(), each decode allowed to
\* complete, restores the surface and the tool state to exactly what they
\* were immediately before the undo.
UndoRedoRestoresPriorState ==
    mon.phase = 4 =>
        /\ surface = mon.surface
        /\ strokeWidth = mon.strokeWidth
        /\ color = mon.color

\* C3 (amended): undo() followed by redo(), each decode allowed to complete,
\* leaves the cursor where it was and sets the surface and the tool state to
\* those recorded in history[index]; that is the state before the undo only
\* when surface and tool state had not changed since that snapshot.
UndoRedoRestoresSnapshot ==
    mon.phase = 4 =>
        /\ historyIndex = mon.index
        /\ historyIndex >= 1 /\ historyIndex <= Len(history) - 1
        /\ ToDataURL(surface) = history[historyIndex + 1].dataURL
        /\ strokeWidth = history[historyIndex + 1].strokeWidth
        /\ color = history[historyIndex + 1].color
\* undo then redo has completed on a canvas that has paint on it
UndoRedoRestoresSnapshotWitness ==
    mon.phase = 4 /\ surface # BlankSurface /\ last.op = "onload"

\* C4: once all in-flight decodes have completed, the surface shows the
\* snapshot of the most recently requested history index: a superseded
\* decode never overwrites the later one.
StaleDecodeNeverWins ==
    (pending = <<>> /\ target # NoURL) => ToDataURL(surface) = target

\* C5: a pointer-up or pointer-leave that arrives while no stroke is in
\* progress commits nothing: history and index are unchanged.
RedundantEndCommitsNothing ==
    [][ (Did("endDrawing") /\ ~isDrawing) => UNCHANGED <<history, historyIndex>> ]_vars

\* C6: after N completed strokes with no undo, redo or clear, history has
\* length N and index = N - 1.
HistoryCountsStrokes ==
    strokes >= 0 => (Len(history) = strokes /\ historyIndex = strokes - 1)

\* C7: undo() at index <= 0 and redo() at index = length - 1 change nothing:
\* history, index, tool state, surface and decodes in flight stay as they are.
UndoRedoNoOpAtBounds ==
    [][ ( \/ (Did("undo") /\ historyIndex <= 0)
          \/ (Did("redo") /\ historyIndex = Len(history) - 1) )
        => UNCHANGED progVars ]_vars
\* undo was invoked with only the first snapshot current
UndoRedoNoOpWitness ==
    last.op = "undo" /\ last.index = 0 /\ last.len >= 1 /\ historyIndex = 0

\* C8: clear() sets history to the empty sequence and index to -1 without
\* pushing a snapshot, and undo() or redo() immediately after clear()
\* changes neither history, index, tool state nor the surface.
ClearEmptiesAndIsNotUndoable ==
    [][ /\ Did("clearCanvas") =>
             (history' = <<>> /\ historyIndex' = -1 /\ surface' = BlankSurface)
        /\ (last.op = "clearCanvas" /\ (Did("undo") \/ Did("redo"))) =>
             UNCHANGED <<history, historyIndex, strokeWidth, color, surface, pending>>
      ]_vars
\* clear was invoked on a history with entries below the cursor
ClearEmptiesWitness ==
    last.op = "clearCanvas" /\ last.len >= 2 /\ last.index >= 1 /\ history = <<>>

\* C9: every snapshot is committed with the strokeWidth and color current
\* when its stroke ended, and every undo() or redo() that takes effect sets
\* the tool state to the one recorded in history[new index].
SnapshotsCarryToolState ==
    [][ /\ Did("endDrawing") =>
             /\ history'[Len(history')].strokeWidth = strokeWidth
             /\ history'[Len(history')].color = color
        /\ ((Did("undo") \/ Did("redo")) /\ historyIndex' # historyIndex) =>
             /\ historyIndex' + 1 \in 1..Len(history)
             /\ strokeWidth' = history[historyIndex' + 1].strokeWidth
             /\ color' = history[historyIndex' + 1].color
      ]_vars
\* stroke A and stroke B were committed with different tools; undo gave A's
SnapshotsCarryToolStateWitness ==
    /\ last.op = "undo" /\ historyIndex = 0 /\ Len(history) = 2
    /\ history[1].color # history[2].color
    /\ history[1].strokeWidth # history[2].strokeWidth
    /\ color = history[1].color /\ strokeWidth = history[1].strokeWidth

\* C10: a pointer-move paints only its own segment (from the previous point
\* to the new one): pixels of earlier segments of the stroke are not
\* repainted with the width or color current at the later pointer-move.
DrawPaintsOwnSegmentOnly ==
    [][ (Did("draw") /\ isDrawing) =>
          \A px \in Pixels :
              px[1] \notin {path.cur, path'.cur} => surface'[px] = surface[px]
      ]_vars

\* C11: when the decode of a snapshot requested by undo/redo fails, the
\* surface keeps the pixel content it had, the failed render is dropped and
\* nothing else of the session changes.
DecodeFailureKeepsSurface ==
    [][ Did("onerror") =>
          /\ surface' = surface
          /\ Len(pending') = Len(pending) - 1
          /\ UNCHANGED <<strokeWidth, color, isDrawing, history, historyIndex, path, mounted, link>>
      ]_vars
\* the decode requested by an undo failed and the painted surface is still
\* there, although the cursor now points at a different snapshot
DecodeFailureWitness ==
    /\ last.op = "onerror" /\ pending = <<>> /\ surface # BlankSurface
    /\ historyIndex >= 0 /\ historyIndex < Len(history)
    /\ ToDataURL(surface) # history[historyIndex + 1].dataURL

\* C12: a pointer-move received while no stroke is in progress changes
\* nothing: surface, history, index, tool state and the idle state stay.
DrawWhileIdleIsNoOp ==
    [][ (Did("draw") /\ ~isDrawing) => UNCHANGED progVars ]_vars
\* the pointer moved over a painted canvas after the stroke had ended
DrawWhileIdleWitness ==
    last.op = "draw" /\ ~last.drawing /\ ~isDrawing /\ surface # BlankSurface

\* C13: exportImage() changes neither surface, history, index, tool state
\* nor the drawing state, and the bytes it hands out decode to the surface
\* content at the moment of the call.
ExportIsPureRead ==
    [][ Did("downloadPNG") =>
          /\ UNCHANGED <<strokeWidth, color, isDrawing, history, historyIndex,
                         surface, path, pending, mounted>>
          /\ DecodeImage(link') = surface
      ]_vars
\* an export taken in the middle of a stroke, of pixels no snapshot holds yet
ExportIsPureReadWitness ==
    /\ last.op = "downloadPNG" /\ isDrawing /\ surface # BlankSurface
    /\ DecodeImage(link) = surface
    /\ \A k \in 1..Len(history) : history[k].dataURL # link

\* C14: while the surface is not mounted, pointer-down, pointer-move,
\* pointer-up/leave, undo, redo, clear and export change nothing.
UnmountedOpsAreNoOps ==
    [][ ( /\ ~mounted
          /\ steps' = steps + 1
          /\ last'.op \in {"startDrawing", "draw", "endDrawing", "undo", "redo",
                           "clearCanvas", "downloadPNG"} )
        => UNCHANGED progVars ]_vars
\* a pointer-up was handled before the canvas was mounted
UnmountedOpsWitness ==
    ~mounted /\ last.op = "endDrawing" /\ history = <<>> /\ historyIndex = -1

\* C15: in every quiescent state (idle, no decode in flight) the surface
\* equals the snapshot at the cursor, or is blank when the cursor is -1.
SurfaceMatchesCursor ==
    (~isDrawing /\ pending = <<>>) =>
        IF historyIndex + 1 \in 1..Len(history)
          THEN ToDataURL(surface) = history[historyIndex + 1].dataURL
          ELSE surface = BlankSurface

\* C16: after clear() the surface is blank and stays blank until the next
\* pointer-move of a stroke draws on it.
ClearedStaysBlank == cleared => surface = BlankSurface

\* C17: while a stroke is in progress no undo/redo takes effect and no
\* snapshot decode completion wipes and redraws the surface.
NoRestoreDuringStroke ==
    [][ isDrawing =>
          /\ ~Did("onload")
          /\ ~((Did("undo") \/ Did("redo")) /\ historyIndex' # historyIndex)
      ]_vars

\* C18: undo, redo, tool changes, pointer-down, pointer-move, export and
\* decode completions leave the history sequence unchanged, and a commit at
\* cursor i leaves the entries at positions 0..i exactly as they were.
SnapshotsAreNeverAltered ==
    [][ /\ ( /\ steps' = steps + 1
             /\ last'.op \in {"undo", "redo", "setColor", "setStrokeWidth",
                              "startDrawing", "draw", "downloadPNG", "onload"} )
           => history' = history
        /\ Did("endDrawing") =>
             \A k \in 1..(historyIndex + 1) :
                 k <= Len(history') /\ history'[k] = history[k]
      ]_vars
\* a commit at cursor 1 of a three-entry history kept entries 0 and 1 and
\* dropped entry 2
SnapshotsAreNeverAlteredWitness ==
    /\ last.op = "endDrawing" /\ last.index = 1 /\ last.len = 3
    /\ Len(history) = 3 /\ historyIndex = 2
    /\ history[1] # history[2]

====
